---- MODULE Spec2Model ----
(***************************************************************************)
(* A model of src/command.rs of wally-package-types: the sourcemap tree    *)
(* search (find_node), the resolution of a require path to a module file   *)
(* (file_path_from_components), the per-thunk pipeline (mutate_thunk) and  *)
(* the enumeration of the packages folder (Command::run and                *)
(* handle_index_directory).                                                *)
(*                                                                         *)
(* A path is a record [dir, name]: dir identifies the directory and name   *)
(* is the file name split at its dots (<<"init", "lua">> is init.lua,      *)
(* <<"", "lua">> is the hidden file .lua, <<"README">> is README).         *)
(* An Option is a sequence: <<>> is None and <<x>> is Some(x).             *)
(***************************************************************************)
EXTENDS Naturals, Sequences, FiniteSets

VARIABLES
    tree,        \* the sourcemap: node id -> [name, file_paths, children]
    rpc,         \* position inside file_path_from_components
    first_in_chain, \* the anchor of the path components being resolved
    stack,       \* find_node's stack of node chains
    node_path,   \* file_path_from_components' chain of nodes
    examined,    \* the nodes find_node has popped and examined, in order
    found,       \* Option of the chain find_node returned
    spec_node,   \* the node the components denote by parent/child navigation
    result,      \* Option of the path file_path_from_components returned
    panic_msg,   \* the message of the panic that ended the resolution
    fs,          \* the files of the packages folder: path -> contents
    fs0,         \* the contents of those files when the current run began
    run,         \* "none", "first" or "second": the run of the command
    pc,          \* position inside Command::run and handle_index_directory
    todo,        \* entries of the packages folder read_dir has yet to yield
    pkgs_todo,   \* package entries of _Index read_dir has yet to yield
    cur_pkg,     \* Option of the package whose entries are being read
    files_todo,  \* entries of the current package yet to be yielded
    handed,      \* path -> times it was handed to mutate_thunk in this run
    outcome,     \* path -> how mutate_thunk ended for it in this run
    written,     \* the paths std::fs::write was called on in this run
    last_handed, \* Option of the path handed to mutate_thunk last
    exit,        \* "running", "ok" or "failed": how the run ended
    err          \* the message of the error or panic that failed the run

rvars == <<tree, rpc, first_in_chain, stack, node_path, examined, found,
           spec_node, result, panic_msg>>

cvars == <<fs, fs0, run, pc, todo, pkgs_todo, cur_pkg, files_todo, handed,
           outcome, written, last_handed, exit, err>>

vars == <<rvars, cvars>>

None == <<>>
Some(x) == <<x>>

\* Bounds of the model: the nodes of a sourcemap of the resolver's
\* specification, the thunk files directly in the packages folder and the
\* packages of its _Index.
MaxNodes == 4
MaxTop == 2
MaxPkgs == 1

Root == 1
Nodes == 1..MaxNodes

Last(s) == s[Len(s)]
Front(s) == SubSeq(s, 1, Len(s) - 1)
Range(s) == {s[i] : i \in 1..Len(s)}

(***************************************************************************)
(* Paths and the extension test of lua_files_filter.                       *)
(***************************************************************************)
MkPath(d, n) == [dir |-> d, name |-> n]

\* The thunk whose require is resolved in the resolver's specification.
ThunkPath == MkPath(0, <<"Foo", "lua">>)

\* Path::extension: None without an embedded dot, None for a file name that
\* begins with its only dot, else the part after the last dot.
Extension(path) ==
    LET n == path.name
    IN  IF Len(n) <= 1 THEN None
        ELSE IF Len(n) = 2 /\ n[1] = "" THEN None
        ELSE Some(n[Len(n)])

\* A faulty lua_files_filter, which takes a json file for a module.
lua_files_filter_accepts_json(path) ==
    LET e == Extension(path)
    IN  IF e # None THEN e[1] = "lua" \/ e[1] = "json" ELSE FALSE

lua_files_filter(path) ==
    LET e == Extension(path)
    IN  IF e # None THEN e[1] = "lua" \/ e[1] = "luau" ELSE FALSE

\* Iterator::find over a sequence: the first element the filter accepts.
FindLua(paths) ==
    IF \E i \in 1..Len(paths) : lua_files_filter(paths[i])
    THEN LET i == CHOOSE k \in 1..Len(paths) :
                      /\ lua_files_filter(paths[k])
                      /\ \A j \in 1..(k - 1) : ~lua_files_filter(paths[j])
         IN  Some(paths[i])
    ELSE None

(***************************************************************************)
(* The sourcemap tree.                                                     *)
(***************************************************************************)
\* SourcemapNode::find_child: the child of the node with the given name.
find_child(t, n, name) ==
    LET cs == t[n].children
    IN  IF \E i \in 1..Len(cs) : t[cs[i]].name = name
        THEN LET i == CHOOSE k \in 1..Len(cs) :
                          /\ t[cs[k]].name = name
                          /\ \A j \in 1..(k - 1) : t[cs[j]].name # name
             IN  Some(cs[i])
        ELSE None

(***************************************************************************)
(* find_node: one iteration of the while loop, and the whole loop.         *)
(***************************************************************************)
\* A faulty push of the children's chains, which drops the chain so far.
ChildChainsNoClone(t, chain) ==
    LET cs == t[Last(chain)].children
    IN  [i \in 1..Len(cs) |-> <<Root, cs[i]>>]

\* The chains pushed for the children of the popped chain's last node.
ChildChains(t, chain) ==
    LET cs == t[Last(chain)].children
    IN  [i \in 1..Len(cs) |-> Append(chain, cs[i])]

\* One iteration on a non-empty stack: pop a chain, return it if its last
\* node holds the path, else push the chains of its children.
FindNodeIter(t, path, stk) ==
    LET chain == Last(stk)
        node == Last(chain)
    IN  IF path \in Range(t[node].file_paths)
        THEN [found |-> TRUE, chain |-> chain, stack |-> Front(stk)]
        ELSE [found |-> FALSE, chain |-> chain,
              stack |-> Front(stk) \o ChildChains(t, chain)]

RECURSIVE FindNodeLoop(_, _, _)
FindNodeLoop(t, path, stk) ==
    IF stk = <<>> THEN None
    ELSE LET it == FindNodeIter(t, path, stk)
         IN  IF it.found THEN Some(it.chain)
             ELSE FindNodeLoop(t, path, it.stack)

find_node(t, path) == FindNodeLoop(t, path, <<<<Root>>>>)

(***************************************************************************)
(* file_path_from_components: the steps of the loop over the components    *)
(* and the selection of the module file.  A step yields the new chain or   *)
(* the panic that ends the resolution.                                     *)
(***************************************************************************)
Ok(chain) == [ok |-> TRUE, chain |-> chain, msg |-> ""]
Panic(chain, msg) == [ok |-> FALSE, chain |-> chain, msg |-> msg]

UnwrapNone == "called Option::unwrap() on a None value"

\* A faulty Parent step, which pops the parent as well.
PopParentTwice(chain) ==
    IF Len(chain) <= 1 THEN Panic(chain, "No parent available")
    ELSE Ok(SubSeq(chain, 1, Len(chain) - 2))

\* component == "Parent": node_path.pop().expect("No parent available")
PopParent(chain) ==
    IF chain = <<>> THEN Panic(chain, "No parent available")
    ELSE Ok(Front(chain))

\* any other component: push the named child of the last node of the chain
PushChild(t, chain, component) ==
    IF chain = <<>> THEN Panic(chain, UnwrapNone)
    ELSE LET c == find_child(t, Last(chain), component)
         IN  IF c = None THEN Panic(chain, "unable to find child")
             ELSE Ok(Append(chain, c[1]))

ComponentStep(t, chain, component) ==
    IF component = "Parent" THEN PopParent(chain)
    ELSE PushChild(t, chain, component)

\* after the loop: the first lua file of the last node of the chain
SelectFile(t, chain) ==
    IF chain = <<>> THEN [ok |-> FALSE, path |-> None, msg |-> UnwrapNone]
    ELSE LET f == FindLua(t[Last(chain)].file_paths)
         IN  IF f = None
             THEN [ok |-> FALSE, path |-> None, msg |-> "No file path for require"]
             ELSE [ok |-> TRUE, path |-> f, msg |-> ""]

RECURSIVE WalkComponents(_, _, _)
WalkComponents(t, chain, components) ==
    IF components = <<>> THEN SelectFile(t, chain)
    ELSE LET s == ComponentStep(t, chain, components[1])
         IN  IF s.ok THEN WalkComponents(t, s.chain, Tail(components))
             ELSE [ok |-> FALSE, path |-> None, msg |-> s.msg]

\* The whole function, for the callers that take it in one step.
file_path_from_components(path, t, path_components) ==
    IF path_components = <<>>
    THEN [ok |-> FALSE, path |-> None, msg |-> "No path components"]
    ELSE IF path_components[1] \notin {"script", "game"}
    THEN [ok |-> FALSE, path |-> None, msg |-> "assertion failed"]
    ELSE IF path_components[1] = "script"
    THEN LET located == find_node(t, path)
         IN  IF located = None
             THEN [ok |-> FALSE, path |-> None, msg |-> "could not find node path"]
             ELSE WalkComponents(t, located[1], Tail(path_components))
    ELSE WalkComponents(t, <<Root>>, Tail(path_components))

(***************************************************************************)
(* The sourcemaps the resolver is checked on: every tree over the nodes in *)
(* which a node's parent has a smaller id and sibling names differ, every  *)
(* choice of the nodes' file lists, children stored in either order.       *)
(***************************************************************************)
NodeName(n) == IF n = Root THEN "root" ELSE IF n % 2 = 0 THEN "A" ELSE "B"

\* The file lists a node may carry: a metadata file before two module
\* files, no module file at all, or the thunk after a metadata file.
FileOption(n, k) ==
    IF k = 1 THEN <<MkPath(n, <<"init", "meta", "json">>),
                    MkPath(n, <<"init", "luau">>),
                    MkPath(n, <<"init", "lua">>)>>
    ELSE IF k = 2 THEN <<MkPath(n, <<"README">>), MkPath(n, <<"", "lua">>)>>
    ELSE <<MkPath(n, <<"init", "meta", "json">>), ThunkPath>>

RECURSIVE AscSeq(_)
AscSeq(S) ==
    IF S = {} THEN <<>>
    ELSE LET m == CHOOSE x \in S : \A y \in S : x <= y
         IN  <<m>> \o AscSeq(S \ {m})

Reverse(s) == [i \in 1..Len(s) |-> s[Len(s) + 1 - i]]

Shapes ==
    {p \in [Nodes \ {Root} -> Nodes] :
        /\ \A n \in Nodes \ {Root} : p[n] < n
        /\ \A m, n \in Nodes \ {Root} :
              (m # n /\ p[m] = p[n]) => NodeName(m) # NodeName(n)}

MkTree(p, k, rev) ==
    [n \in Nodes |->
        LET kids == AscSeq({m \in Nodes \ {Root} : p[m] = n})
        IN  [name |-> NodeName(n),
             file_paths |-> FileOption(n, k[n]),
             children |-> IF rev THEN Reverse(kids) ELSE kids]]

Trees == {MkTree(p, k, rev) : p \in Shapes, k \in [Nodes -> 1..3], rev \in BOOLEAN}

\* The components a require path may hold after its anchor.
Components == {"Parent", "A", "B", "C"}

(***************************************************************************)
(* Navigation by the tree's own parent/child relation, which the chain of  *)
(* file_path_from_components is meant to mirror.  0 is "no such node".     *)
(***************************************************************************)
Holders(t, path) == {n \in Nodes : path \in Range(t[n].file_paths)}

ParentOf(t, n) ==
    IF n # 0 /\ \E m \in Nodes : n \in Range(t[m].children)
    THEN CHOOSE m \in Nodes : n \in Range(t[m].children)
    ELSE 0

ChildNamed(t, n, name) ==
    IF n # 0 /\ \E m \in Range(t[n].children) : t[m].name = name
    THEN CHOOSE m \in Range(t[n].children) : t[m].name = name
    ELSE 0

Navigate(t, n, component) ==
    IF component = "Parent" THEN ParentOf(t, n) ELSE ChildNamed(t, n, component)

(***************************************************************************)
(* The resolver's specification: one call of file_path_from_components on  *)
(* ThunkPath, taken step by step.  The components after the anchor are the *)
(* sequence of choices of RComponent, and RFinish is the end of the list.  *)
(***************************************************************************)
RInit ==
    /\ tree \in Trees
    /\ rpc = "start"
    /\ first_in_chain = ""
    /\ stack = <<>>
    /\ node_path = <<>>
    /\ examined = <<>>
    /\ found = None
    /\ spec_node = 0
    /\ result = None
    /\ panic_msg = ""
    /\ fs = <<>>
    /\ fs0 = <<>>
    /\ run = "none"
    /\ pc = "idle"
    /\ todo = {}
    /\ pkgs_todo = {}
    /\ cur_pkg = None
    /\ files_todo = {}
    /\ handed = <<>>
    /\ outcome = <<>>
    /\ written = {}
    /\ last_handed = None
    /\ exit = "running"
    /\ err = ""

\* first_in_chain == "script": node_path comes from find_node
RStartScript ==
    /\ rpc = "start"
    /\ first_in_chain' = "script"
    /\ rpc' = "find"
    /\ stack' = <<<<Root>>>>
    /\ spec_node' = IF Cardinality(Holders(tree, ThunkPath)) = 1
                    THEN CHOOSE n \in Nodes : n \in Holders(tree, ThunkPath)
                    ELSE 0
    /\ UNCHANGED <<tree, node_path, examined, found, result, panic_msg>>
    /\ UNCHANGED cvars

\* first_in_chain == "game": node_path is vec![root]
RStartGame ==
    /\ rpc = "start"
    /\ first_in_chain' = "game"
    /\ rpc' = "walk"
    /\ node_path' = <<Root>>
    /\ spec_node' = Root
    /\ UNCHANGED <<tree, stack, examined, found, result, panic_msg>>
    /\ UNCHANGED cvars

\* find_node: the stack is empty, the loop ends and None is returned;
\* the caller's expect panics
RFindNone ==
    /\ rpc = "find"
    /\ stack = <<>>
    /\ rpc' = "panic"
    /\ panic_msg' = "could not find node path"
    /\ UNCHANGED <<tree, first_in_chain, stack, node_path, examined, found,
                   spec_node, result>>
    /\ UNCHANGED cvars

\* find_node: one iteration of the while loop
RFindIter ==
    /\ rpc = "find"
    /\ stack # <<>>
    /\ LET it == FindNodeIter(tree, ThunkPath, stack)
       IN  /\ examined' = Append(examined, Last(it.chain))
           /\ stack' = it.stack
           /\ found' = IF it.found THEN Some(it.chain) ELSE None
           /\ node_path' = IF it.found THEN it.chain ELSE node_path
           /\ rpc' = IF it.found THEN "walk" ELSE "find"
    /\ UNCHANGED <<tree, first_in_chain, spec_node, result, panic_msg>>
    /\ UNCHANGED cvars

\* one iteration of the loop over the components
RComponent(component) ==
    /\ rpc = "walk"
    /\ LET s == ComponentStep(tree, node_path, component)
       IN  /\ node_path' = s.chain
           /\ rpc' = IF s.ok THEN "walk" ELSE "panic"
           /\ panic_msg' = s.msg
    /\ spec_node' = Navigate(tree, spec_node, component)
    /\ UNCHANGED <<tree, first_in_chain, stack, examined, found, result>>
    /\ UNCHANGED cvars

\* the components are consumed: select the module file and return
RFinish ==
    /\ rpc = "walk"
    /\ LET f == SelectFile(tree, node_path)
       IN  /\ result' = f.path
           /\ rpc' = IF f.ok THEN "done" ELSE "panic"
           /\ panic_msg' = f.msg
    /\ UNCHANGED <<tree, first_in_chain, stack, node_path, examined, found,
                   spec_node>>
    /\ UNCHANGED cvars

RNext ==
    \/ RStartScript
    \/ RStartGame
    \/ RFindNone
    \/ RFindIter
    \/ \E component \in Components : RComponent(component)
    \/ RFinish

SpecResolve == RInit /\ [][RNext]_vars

(***************************************************************************)
(* Properties of the resolver.                                             *)
(***************************************************************************)
NoDup(s) == \A i, j \in 1..Len(s) : s[i] = s[j] => i = j

\* A chain from the root in which every node is a child of the one before.
IsRootChain(t, chain) ==
    /\ chain # <<>>
    /\ chain[1] = Root
    /\ \A i \in 2..Len(chain) : chain[i] \in Range(t[chain[i - 1]].children)

\* A file name with an embedded dot whose last part is lua or luau.
HasModuleExt(p) ==
    /\ Len(p.name) >= 2
    /\ ~(Len(p.name) = 2 /\ p.name[1] = "")
    /\ p.name[Len(p.name)] \in {"lua", "luau"}

\* The thunk has a node of its own, or the anchor does not need one.
StartDefined ==
    first_in_chain = "script" => Cardinality(Holders(tree, ThunkPath)) = 1

\* C1: when every Parent step has a parent, every other step names a child
\* of the current node and the destination has a module file, the path
\* returned is the module file of the node reached from the thunk's own node
\* (script) or from the root (game, without find_node) by moving to the
\* parent on Parent and to the named child on any other component.
C1_ResolveFollowsNavigation ==
    (rpc \in {"walk", "done", "panic"} /\ StartDefined) =>
        /\ (rpc = "walk" /\ spec_node # 0) =>
               (node_path # <<>> /\ Last(node_path) = spec_node)
        /\ rpc = "done" =>
               /\ spec_node # 0
               /\ result = FindLua(tree[spec_node].file_paths)
               /\ result # None
        /\ rpc = "panic" =>
               \/ spec_node = 0
               \/ \A i \in 1..Len(tree[spec_node].file_paths) :
                      ~HasModuleExt(tree[spec_node].file_paths[i])
        /\ first_in_chain = "game" => (examined = <<>> /\ found = None)

C1_Witness ==
    /\ rpc = "done"
    /\ first_in_chain = "script"
    /\ StartDefined
    /\ found # None
    /\ Len(found[1]) >= 3
    /\ Len(node_path) >= Len(found[1])
    /\ SubSeq(node_path, 1, Len(found[1]) - 1) = Front(found[1])
    /\ node_path[Len(found[1])] # Last(found[1])
    /\ spec_node = Last(node_path)
    /\ result # None

\* C2: a Parent component consumed while the chain is the root alone is a
\* fatal error at that component: the chain is never popped to empty, so
\* while the resolution has not failed the chain is non-empty and starts
\* at the root.
C2_ChainNeverPoppedEmpty ==
    rpc = "walk" => (node_path # <<>> /\ node_path[1] = Root)

\* C7: the path returned is the first entry, in stored order, of the last
\* node's file_paths whose extension is lua or luau; entries with another
\* extension or none are never returned, and without such an entry the
\* resolution is fatal.
C7_ExtensionBasedSelection ==
    /\ rpc = "done" =>
           LET fp == tree[Last(node_path)].file_paths
           IN  \E i \in 1..Len(fp) :
                   /\ result = Some(fp[i])
                   /\ HasModuleExt(fp[i])
                   /\ \A j \in 1..(i - 1) : ~HasModuleExt(fp[j])
    /\ (rpc = "panic" /\ panic_msg = "No file path for require") =>
           /\ node_path # <<>>
           /\ \A p \in Range(tree[Last(node_path)].file_paths) : ~HasModuleExt(p)
    /\ (rpc = "panic" /\ node_path # <<>>
            /\ \E p \in Range(tree[Last(node_path)].file_paths) : HasModuleExt(p)) =>
           panic_msg # "No file path for require"

C7_Witness ==
    /\ rpc = "done"
    /\ Extension(tree[Last(node_path)].file_paths[1]) = Some("json")
    /\ result = Some(tree[Last(node_path)].file_paths[2])
    /\ Extension(result[1]) = Some("luau")

\* C10: find_node examines each node at most once and so terminates; the
\* chain it returns starts at the root, ends at a node holding the path and
\* links each node to a child of the one before, whatever the order of the
\* children; it returns None exactly when no node holds the path.
C10_FindNode ==
    /\ NoDup(examined)
    /\ Len(examined) <= MaxNodes
    /\ found # None =>
           /\ IsRootChain(tree, found[1])
           /\ Last(found[1]) \in Holders(tree, ThunkPath)
           /\ found = find_node(tree, ThunkPath)
           /\ Cardinality(Holders(tree, ThunkPath)) = 1 =>
                  /\ Holders(tree, ThunkPath) = {Last(found[1])}
                  /\ NoDup(found[1])
    /\ (rpc = "find" /\ stack = <<>>) => Holders(tree, ThunkPath) = {}
    /\ panic_msg = "could not find node path" =>
           /\ Holders(tree, ThunkPath) = {}
           /\ find_node(tree, ThunkPath) = None
           /\ Range(examined) = Nodes
    /\ (Holders(tree, ThunkPath) = {} /\ first_in_chain = "script") =>
           /\ found = None
           /\ rpc \in {"find", "panic"}
           /\ rpc = "panic" => panic_msg = "could not find node path"

C10_Witness ==
    /\ found # None
    /\ Cardinality(Holders(tree, ThunkPath)) = 1
    /\ Len(found[1]) >= 3
    /\ Len(examined) = MaxNodes
    /\ \E n \in Nodes : Len(tree[n].children) >= 2 /\ tree[n].children[1] > tree[n].children[2]

(***************************************************************************)
(* The packages folder of a run of the command.  It holds MaxTop thunk     *)
(* entries and the directory _Index; _Index holds MaxPkgs package          *)
(* directories, each with the thunk Dep.lua and the directory lib, whose   *)
(* init.lua is the module the package's links lead to.                     *)
(***************************************************************************)
TopNames == <<"Foo", "Bar", "Baz", "Qux">>
PkgNames == <<"alpha", "beta", "gamma">>

\* The nodes of the run's sourcemap; a directory is identified by its node.
PackagesNode == Root + 1
IndexNode == Root + 2
PkgNode(k) == IndexNode + k
DepNode(k) == IndexNode + MaxPkgs + k
LibNode(k) == IndexNode + 2 * MaxPkgs + k
TopNode(i) == IndexNode + 3 * MaxPkgs + i
RunNodes == 1..(IndexNode + 3 * MaxPkgs + MaxTop)

TopPath(i) == MkPath(PackagesNode, <<TopNames[i], "lua">>)
IndexPath == MkPath(PackagesNode, <<"_Index">>)
PkgDirPath(k) == MkPath(IndexNode, <<PkgNames[k]>>)
DepPath(k) == MkPath(PkgNode(k), <<"Dep", "lua">>)
LibDirPath(k) == MkPath(PkgNode(k), <<"lib">>)
LibMeta(k) == MkPath(LibNode(k), <<"init", "meta", "json">>)
LibFile(k) == MkPath(LibNode(k), <<"init", "lua">>)

TopPaths == {TopPath(i) : i \in 1..MaxTop}
DepPaths == {DepPath(k) : k \in 1..MaxPkgs}
ThunkFiles == TopPaths \cup DepPaths
LibFiles == {LibFile(k) : k \in 1..MaxPkgs}

\* read_dir of the packages folder, of _Index and of a package directory
PackagesEntries == TopPaths \cup {IndexPath}
IndexEntries == {PkgDirPath(k) : k \in 1..MaxPkgs}
PackageEntries(k) == {DepPath(k), LibDirPath(k)}
PkgOf(dir) == CHOOSE k \in 1..MaxPkgs : PkgDirPath(k) = dir
AllEntries ==
    PackagesEntries \cup IndexEntries
        \cup UNION {PackageEntries(k) : k \in 1..MaxPkgs}

\* The sourcemap of the run, after mutate_sourcemap.  The last top-level
\* thunk is a file the sourcemap does not list.
RunTree ==
    [n \in RunNodes |->
        IF n = Root THEN
            [name |-> "game", file_paths |-> <<>>, children |-> <<PackagesNode>>]
        ELSE IF n = PackagesNode THEN
            [name |-> "Packages", file_paths |-> <<>>,
             children |-> [i \in 1..MaxTop |-> TopNode(i)] \o <<IndexNode>>]
        ELSE IF n = IndexNode THEN
            [name |-> "_Index", file_paths |-> <<>>,
             children |-> [k \in 1..MaxPkgs |-> PkgNode(k)]]
        ELSE IF n <= IndexNode + MaxPkgs THEN
            LET k == n - IndexNode
            IN  [name |-> PkgNames[k], file_paths |-> <<>>,
                 children |-> <<DepNode(k), LibNode(k)>>]
        ELSE IF n <= IndexNode + 2 * MaxPkgs THEN
            LET k == n - IndexNode - MaxPkgs
            IN  [name |-> "Dep", file_paths |-> <<DepPath(k)>>, children |-> <<>>]
        ELSE IF n <= IndexNode + 3 * MaxPkgs THEN
            LET k == n - IndexNode - 2 * MaxPkgs
            IN  [name |-> "lib", file_paths |-> <<LibMeta(k), LibFile(k)>>,
                 children |-> <<>>]
        ELSE
            LET i == n - IndexNode - 3 * MaxPkgs
            IN  [name |-> TopNames[i],
                 file_paths |-> IF i = MaxTop /\ i > 1 THEN <<>> ELSE <<TopPath(i)>>,
                 children |-> <<>>]]

(***************************************************************************)
(* File contents.  A thunk file is its syntax tree: whether statements     *)
(* precede the last statement, the kind of the last statement, the length  *)
(* of the return list, the returned expression and what the link encodes   *)
(* of its target.  A module file is the digest of what it exports.         *)
(***************************************************************************)
Static(chain) == [form |-> "static", chain |-> chain]
Computed(chain) == [form |-> "computed", chain |-> chain]

Thunk(pre, last, rets, expr, enc) ==
    [kind |-> "thunk", pre |-> pre, last |-> last, rets |-> rets,
     expr |-> expr, enc |-> enc]

Link(chain, enc) == Thunk(FALSE, "return", 1, Static(chain), enc)
Garbage == [kind |-> "garbage"]
Directory == [kind |-> "dir"]
Module(digest) == [kind |-> "module", digest |-> digest]

GameLib == <<"game", "Packages", "_Index", PkgNames[1], "lib">>
GameTop == <<"game", "Packages", TopNames[1]>>

\* What a top-level entry that run hands on without an error may be.
PlainContents ==
    { Link(GameLib, "lib"),
      Link(<<"script", "Parent", "_Index", PkgNames[1], "lib">>, "old"),
      Link(GameTop, "old"),
      Thunk(TRUE, "return", 1, Static(GameLib), "old"),
      Thunk(FALSE, "break", 0, Static(<<>>), "old") }

\* What a top-level entry may be.  The entries are handed to the same code
\* in any order, so the contents that end in an error are tried on the
\* first entry alone.
TopContents(i) ==
    IF i > 1 THEN PlainContents
    ELSE PlainContents \cup
        { Link(<<"game", "Parent">>, "old"),
          Link(<<"game", "Packages">>, "old"),
          Link(<<"script", "Parent", "Missing">>, "old"),
          Thunk(FALSE, "return", 1, Computed(<<"script", "Parent">>), "old"),
          Thunk(FALSE, "return", 1, Static(<<"workspace", "lib">>), "old"),
          Thunk(FALSE, "none", 0, Static(<<>>), "old"),
          Thunk(FALSE, "return", 0, Static(<<>>), "old"),
          Garbage,
          Directory }

\* What the thunk of a package may be.
DepContents ==
    { Link(<<"script", "Parent", "lib">>, "lib"),
      Link(<<"script", "Parent", "lib">>, "old"),
      Garbage }

Files ==
    {[p \in ThunkFiles |-> IF p \in TopPaths THEN a[CHOOSE i \in 1..MaxTop : TopPath(i) = p]
                                              ELSE b[p]] :
        a \in {f \in [1..MaxTop -> TopContents(1)] :
                  \A i \in 1..MaxTop : f[i] \in TopContents(i)},
        b \in [DepPaths -> DepContents]}

(***************************************************************************)
(* mutate_thunk and what it calls.                                         *)
(***************************************************************************)
\* std::fs::read_to_string: None is an I/O error (a directory, no file)
read_to_string(files, path) ==
    IF path \in DOMAIN files
    THEN IF files[path].kind = "dir" THEN None ELSE Some(files[path])
    ELSE IF path \in LibFiles THEN Some(Module("lib"))
    ELSE None

\* full_moon::parse and full_moon::print
parse(text) == IF text.kind = "thunk" THEN Some(text) ELSE None
print(ast) == ast

\* require_parser::match_require: the components of a static chain rooted
\* at an anchor, None for any other expression
match_require(expression) ==
    IF /\ expression.form = "static"
       /\ expression.chain # <<>>
       /\ expression.chain[1] \in {"script", "game"}
    THEN Some(expression.chain)
    ELSE None

\* What a link must encode of a target with these contents.
Digest(contents) ==
    IF contents.kind = "module" THEN contents.digest
    ELSE IF contents.kind = "thunk" THEN contents.enc
    ELSE "opaque"

\* link_mutator::mutate_link: Unchanged when the link already encodes the
\* target, else the tree with the returned expression's link rewritten
mutate_link(parsed_code, returns, pass_through_contents) ==
    IF parsed_code.enc = Digest(pass_through_contents)
    THEN [changed |-> FALSE, ast |-> parsed_code]
    ELSE [changed |-> TRUE,
          ast |-> [parsed_code EXCEPT !.enc = Digest(pass_through_contents)]]

\* How a call of mutate_thunk ends: Ok(()), an Err or a panic; what it did
\* for the thunk; the files it leaves; whether it called std::fs::write.
Done(did, files, wrote) ==
    [exit |-> "ok", msg |-> "", outcome |-> did, files |-> files, wrote |-> wrote]
Fail(how, msg, files) ==
    [exit |-> how, msg |-> msg, outcome |-> "error", files |-> files,
     wrote |-> FALSE]

\* A faulty handling of None from match_require, which skips the thunk.
NotApplicableSkips(files) == Done("skipped", files, FALSE)

\* match_require(..).expect("could not resolve path for require") on None
NotApplicable(files) ==
    Fail("panic", "could not resolve path for require", files)

\* A faulty write-back, which writes the thunk after Unchanged as well.
WriteBackAlways(path, files, link) ==
    Done(IF link.changed THEN "Changed" ELSE "Unchanged",
         [files EXCEPT ![path] = print(link.ast)], TRUE)

\* match new_link_contents { Changed(new_ast) => write, Unchanged => () }
WriteBack(path, files, link) ==
    IF link.changed
    THEN Done("Changed", [files EXCEPT ![path] = print(link.ast)], TRUE)
    ELSE Done("Unchanged", files, FALSE)

mutate_thunk(path, root, files) ==
    LET text == read_to_string(files, path)
    IN  IF text = None THEN Fail("err", "cannot read the thunk", files)
        ELSE LET parsed == parse(text[1])
        IN  IF parsed = None THEN Fail("err", "cannot parse the thunk", files)
        ELSE LET parsed_code == parsed[1]
        IN  IF parsed_code.last = "none"
            THEN Fail("panic", "assertion failed: last_stmt().is_some()", files)
        ELSE IF parsed_code.last # "return" THEN Done("skipped", files, FALSE)
        ELSE IF parsed_code.rets = 0 THEN Fail("panic", UnwrapNone, files)
        ELSE LET path_components == match_require(parsed_code.expr)
        IN  IF path_components = None THEN NotApplicable(files)
        ELSE LET file_path == file_path_from_components(path, root, path_components[1])
        IN  IF ~file_path.ok THEN Fail("panic", file_path.msg, files)
        ELSE LET pass_through_contents == read_to_string(files, file_path.path[1])
        IN  IF pass_through_contents = None
            THEN Fail("err", "cannot read the required file", files)
        ELSE WriteBack(path, files,
                       mutate_link(parsed_code, parsed_code.expr,
                                   pass_through_contents[1]))

(***************************************************************************)
(* Command::run and handle_index_directory, one loop iteration at a time.  *)
(***************************************************************************)
\* A faulty call of mutate_thunk, which drops its Err.
AbortsOnPanicOnly(r) == r.exit = "panic"

\* the ? on mutate_thunk's result, and the unwinding of its panics
Aborts(r) == r.exit # "ok"

\* A faulty file test, which takes the entries that are no files.
IsFileNegated(files, path) == ~(path \in DOMAIN files /\ files[path].kind # "dir")

\* thunk.file_type().unwrap().is_file()
IsFile(files, path) == path \in DOMAIN files /\ files[path].kind # "dir"

\* the call mutate_thunk(path, root) in either loop
HandThunk(path) ==
    LET r == mutate_thunk(path, tree, fs)
    IN  /\ fs' = r.files
        /\ handed' = [handed EXCEPT ![path] = @ + 1]
        /\ outcome' = [outcome EXCEPT ![path] = r.outcome]
        /\ written' = IF r.wrote THEN written \cup {path} ELSE written
        /\ last_handed' = Some(path)
        /\ exit' = IF Aborts(r) THEN "failed" ELSE exit
        /\ err' = IF Aborts(r) THEN r.msg ELSE err
        /\ pc' = IF Aborts(r) THEN "end" ELSE pc

RIdle ==
    /\ rpc = "idle"
    /\ first_in_chain = ""
    /\ stack = <<>>
    /\ node_path = <<>>
    /\ examined = <<>>
    /\ found = None
    /\ spec_node = 0
    /\ result = None
    /\ panic_msg = ""

Init ==
    /\ tree = RunTree
    /\ RIdle
    /\ fs \in Files
    /\ fs0 = fs
    /\ run = "none"
    /\ pc = "idle"
    /\ todo = {}
    /\ pkgs_todo = {}
    /\ cur_pkg = None
    /\ files_todo = {}
    /\ handed = [p \in AllEntries |-> 0]
    /\ outcome = [p \in AllEntries |-> "none"]
    /\ written = {}
    /\ last_handed = None
    /\ exit = "running"
    /\ err = ""

\* Command::run is called: once, and once more after a successful run
CommandRun ==
    /\ \/ pc = "idle"
       \/ pc = "end" /\ exit = "ok" /\ run = "first"
    /\ run' = IF run = "none" THEN "first" ELSE "second"
    /\ pc' = "loop"
    /\ todo' = PackagesEntries
    /\ fs0' = fs
    /\ handed' = [p \in AllEntries |-> 0]
    /\ outcome' = [p \in AllEntries |-> "none"]
    /\ written' = {}
    /\ last_handed' = None
    /\ exit' = "running"
    /\ err' = ""
    /\ UNCHANGED <<fs, pkgs_todo, cur_pkg, files_todo>>
    /\ UNCHANGED rvars

\* an entry of the packages folder other than _Index
RunThunk(entry) ==
    /\ pc = "loop"
    /\ entry \in todo
    /\ entry.name # <<"_Index">>
    /\ todo' = todo \ {entry}
    /\ HandThunk(entry)
    /\ UNCHANGED <<fs0, run, pkgs_todo, cur_pkg, files_todo>>
    /\ UNCHANGED rvars

\* the entry _Index: handle_index_directory is entered
RunIndex(entry) ==
    /\ pc = "loop"
    /\ entry \in todo
    /\ entry.name = <<"_Index">>
    /\ todo' = todo \ {entry}
    /\ pc' = "index"
    /\ pkgs_todo' = IndexEntries
    /\ UNCHANGED <<fs, fs0, run, cur_pkg, files_todo, handed, outcome, written,
                   last_handed, exit, err>>
    /\ UNCHANGED rvars

\* handle_index_directory: the inner loop has ended, or not begun, and the
\* outer loop yields a package entry
IndexPackage(package_entry) ==
    /\ pc = "index"
    /\ files_todo = {}
    /\ package_entry \in pkgs_todo
    /\ pkgs_todo' = pkgs_todo \ {package_entry}
    /\ cur_pkg' = Some(package_entry)
    /\ files_todo' = PackageEntries(PkgOf(package_entry))
    /\ UNCHANGED <<fs, fs0, run, pc, todo, handed, outcome, written, last_handed,
                   exit, err>>
    /\ UNCHANGED rvars

\* handle_index_directory: the inner loop yields a file
IndexThunk(thunk) ==
    /\ pc = "index"
    /\ cur_pkg # None
    /\ thunk \in files_todo
    /\ IsFile(fs, thunk)
    /\ files_todo' = files_todo \ {thunk}
    /\ HandThunk(thunk)
    /\ UNCHANGED <<fs0, run, todo, pkgs_todo, cur_pkg>>
    /\ UNCHANGED rvars

\* handle_index_directory: the inner loop yields an entry that is no file
IndexNotFile(thunk) ==
    /\ pc = "index"
    /\ cur_pkg # None
    /\ thunk \in files_todo
    /\ ~IsFile(fs, thunk)
    /\ files_todo' = files_todo \ {thunk}
    /\ UNCHANGED <<fs, fs0, run, pc, todo, pkgs_todo, cur_pkg, handed, outcome,
                   written, last_handed, exit, err>>
    /\ UNCHANGED rvars

\* handle_index_directory returns Ok(()) and run continues with its loop
IndexDone ==
    /\ pc = "index"
    /\ files_todo = {}
    /\ pkgs_todo = {}
    /\ pc' = "loop"
    /\ cur_pkg' = None
    /\ UNCHANGED <<fs, fs0, run, todo, pkgs_todo, files_todo, handed,
                   outcome, written, last_handed, exit, err>>
    /\ UNCHANGED rvars

\* run's loop ends: Ok(())
RunDone ==
    /\ pc = "loop"
    /\ todo = {}
    /\ pc' = "end"
    /\ exit' = "ok"
    /\ UNCHANGED <<fs, fs0, run, todo, pkgs_todo, cur_pkg, files_todo, handed,
                   outcome, written, last_handed, err>>
    /\ UNCHANGED rvars

Next ==
    \/ CommandRun
    \/ \E entry \in PackagesEntries : RunThunk(entry)
    \/ \E entry \in PackagesEntries : RunIndex(entry)
    \/ \E package_entry \in IndexEntries : IndexPackage(package_entry)
    \/ \E thunk \in AllEntries : IndexThunk(thunk)
    \/ \E thunk \in AllEntries : IndexNotFile(thunk)
    \/ IndexDone
    \/ RunDone

Spec == Init /\ [][Next]_vars

(***************************************************************************)
(* Properties of a run.  A path handed to mutate_thunk held fs0[path] when *)
(* it was handed: a run writes a file only while processing that file.     *)
(***************************************************************************)
Handed(p) == p \in ThunkFiles /\ handed[p] >= 1

\* The file parses, its last statement is a return with a non-empty list,
\* and match_require finds no static anchored chain in what it returns.
IsNotApplicable(c) ==
    /\ c.kind = "thunk"
    /\ c.last = "return"
    /\ c.rets >= 1
    /\ \/ c.expr.form # "static"
       \/ c.expr.chain = <<>>
       \/ c.expr.chain[1] \notin {"script", "game"}

\* The file parses and its body is not exactly one return statement with a
\* non-empty return list.
IsShapeViolation(c) ==
    /\ c.kind = "thunk"
    /\ \/ c.pre
       \/ c.last # "return"
       \/ c.rets = 0

\* C3 as stated: a thunk whose returned expression is not applicable is
\* skipped silently: no fatal error, no write, success, and the run goes on.
C3_NotApplicableIsSkipped ==
    \A p \in ThunkFiles :
        (Handed(p) /\ IsNotApplicable(fs0[p])) =>
            /\ outcome[p] = "skipped"
            /\ exit # "failed"
            /\ p \notin written

\* C3 as the code has it: a thunk whose returned expression is not
\* applicable ends mutate_thunk in the panic "could not resolve path for
\* require"; nothing is written and the run fails at that thunk.
C3_NotApplicableIsFatal ==
    \A p \in ThunkFiles :
        (Handed(p) /\ IsNotApplicable(fs0[p])) =>
            /\ outcome[p] = "error"
            /\ exit = "failed"
            /\ err = "could not resolve path for require"
            /\ last_handed = Some(p)
            /\ written \subseteq {q \in ThunkFiles : q # p}
            /\ fs[p] = fs0[p]

C3_Witness ==
    \E p, q \in ThunkFiles :
        /\ Handed(p)
        /\ IsNotApplicable(fs0[p])
        /\ fs0[p].expr.form = "computed"
        /\ exit = "failed"
        /\ handed[q] = 0

\* C4: a thunk file is written in a run if and only if mutate_link returned
\* Changed for it; after Unchanged, a fatal error or a skip its contents
\* are those it had before the run.
C4_WrittenIffChanged ==
    /\ written \subseteq ThunkFiles
    /\ \A p \in ThunkFiles :
        /\ p \in written <=> outcome[p] = "Changed"
        /\ outcome[p] # "Changed" => fs[p] = fs0[p]
        /\ outcome[p] = "Changed" =>
               /\ fs0[p].kind = "thunk"
               /\ fs[p] = [fs0[p] EXCEPT !.enc = fs[p].enc]
               /\ fs[p].enc # fs0[p].enc

C4_Witness ==
    \E p, q, r \in ThunkFiles :
        /\ outcome[p] = "Changed" /\ p \in written
        /\ outcome[q] = "Unchanged" /\ fs[q] = fs0[q]
        /\ outcome[r] = "error" /\ fs[r] = fs0[r]
        /\ exit = "failed"

\* C5: a second run right after a successful first run succeeds, reports
\* no thunk Changed and writes no file.
C5_SecondRunChangesNothing ==
    run = "second" =>
        /\ exit # "failed"
        /\ written = {}
        /\ \A p \in ThunkFiles : outcome[p] # "Changed"

\* C6: a thunk whose body is not exactly one return statement with a
\* returned expression is a fatal shape error that fails the run; it is
\* never accepted, skipped with success or rewritten.
C6_ShapeViolationIsFatal ==
    \A p \in ThunkFiles :
        (Handed(p) /\ IsShapeViolation(fs0[p])) =>
            /\ outcome[p] = "error"
            /\ exit = "failed"
            /\ p \notin written

\* C8: in a run every entry of the packages folder but _Index, and every
\* file directly inside a directory of _Index, is handed to mutate_thunk
\* exactly once when the run ends in success and never twice; _Index, its
\* directories and the entries of a package that are no files are not.
C8_EachThunkHandedOnce ==
    /\ \A p \in AllEntries : handed[p] <= 1
    /\ handed[IndexPath] = 0
    /\ \A d \in IndexEntries : handed[d] = 0
    /\ \A k \in 1..MaxPkgs : handed[LibDirPath(k)] = 0
    /\ \A p \in AllEntries : (handed[p] = 0) <=> (outcome[p] = "none")
    /\ exit = "ok" =>
           /\ \A p \in PackagesEntries : p # IndexPath => handed[p] = 1
           /\ \A k \in 1..MaxPkgs : handed[DepPath(k)] = 1
    /\ \A p \in TopPaths : (pc \in {"loop", "index"} /\ p \notin todo) => handed[p] = 1

C8_Witness ==
    /\ exit = "ok"
    /\ run = "first"
    /\ \A p \in ThunkFiles : handed[p] = 1
    /\ \E p \in TopPaths : outcome[p] = "Changed"
    /\ \E p \in DepPaths : outcome[p] = "Changed"

\* C9: the run fails exactly when the processing of a thunk ends in an
\* error, that thunk is the last one handed to mutate_thunk, and no other
\* thunk is read or written afterwards; a run that ends in success has
\* handed on every thunk, each left as it was or rewritten after Changed.
C9_AbortOnFirstError ==
    /\ (exit = "failed") <=> (\E p \in AllEntries : outcome[p] = "error")
    /\ \A p \in AllEntries : outcome[p] = "error" => last_handed = Some(p)
    /\ exit = "failed" => (pc = "end" /\ err # "")
    /\ exit = "ok" =>
           \A p \in ThunkFiles :
               /\ handed[p] = 1
               /\ outcome[p] \in {"Unchanged", "Changed", "skipped"}
               /\ \/ fs[p] = fs0[p] /\ p \notin written
                  \/ outcome[p] = "Changed" /\ p \in written

C9_Witness ==
    \E p, q, r \in ThunkFiles :
        /\ exit = "failed"
        /\ outcome[p] = "Changed"
        /\ outcome[q] = "error"
        /\ fs0[q].kind = "garbage"
        /\ handed[r] = 0

====
